---- MODULE Spec2Model ----
(***************************************************************************)
(* Model of perplexity_improved.py: the command-line client's credential   *)
(* resolution, settings file, request/response handling with its           *)
(* re-authentication loop, result rendering and exit codes.                *)
(*                                                                         *)
(* Text (keys, typed lines) is a sequence of one-character strings, so     *)
(* that str.strip() and str.lower() are computed and not assumed.          *)
(* Successive runs of the program share only the settings file.           *)
(***************************************************************************)
EXTENDS Naturals, Sequences, FiniteSets, TLC

\* ------------------------------------------------------------ bounds
\* Cap on the network calls of one run (the recursion of get_response is
\* unbounded in the code; the cap is applied where the retry is accepted).
MaxCalls == 3

\* ------------------------------------------------------------ values
\* Python's None for an Optional[str]; no text contains this token.
None == <<"None">>

\* Python truthiness of an Optional[str]: None and "" are falsy.
Truthy(v) == v # None /\ v # <<>>

X == <<"X">>
Y == <<"Y">>
S == <<"S">>
Z == <<"Z">>

AVAILABLE_MODELS == <<"sonar-reasoning-pro", "sonar-reasoning", "sonar-pro", "sonar">>

HTTP_OK == 200
HTTP_UNAUTHORIZED == 401
HTTP_SERVER_ERROR == 500

\* ------------------------------------------------------------ inputs
\* Values of args.query (nargs='?': None when omitted).
Queries == {None, <<>>, <<"q">>}
\* Values of args.model.
Models == {"sonar-pro", "not-a-real-model"}
\* Values of args.api_key and of os.environ.get("PERPLEXITY_API_KEY").
ExplicitKeys == {None, <<>>, X}
EnvKeys == {None, <<>>, Y}
\* Lines the user may type at "API Key: ".
KeyLines == {<<>>, <<" ">>, Z, <<" ", "Z", " ">>}
\* Lines the user may type at a (y/n) prompt.
ChoiceLines == {<<"y">>, <<"Y">>, <<" ", "y", " ">>, <<"n">>, <<>>, <<"y", "e", "s">>}
\* What a save of the settings file may run into.
SaveFaults == {"none", "mkdir", "open", "write", "chmod"}

\* Every command line.
AllArgs == [query : Queries, model : Models, usage : BOOLEAN, citations : BOOLEAN,
            glow : BOOLEAN, api_key : ExplicitKeys, clear_config : BOOLEAN]

\* The command lines with the three rendering flags all off or all on.
Args == {a \in AllArgs : a.usage = a.citations /\ a.citations = a.glow}

\* Parsed bodies of a 200 response. json = FALSE: response.json() raises.
ChoiceShapes == {"absent", "empty", "no_message", "no_content", "content"}
Bodies == [json : {TRUE}, citations : {None, <<"a", "b">>}, usage : {None, <<"total: 5">>},
           choices : ChoiceShapes]
          \cup {[json |-> FALSE, citations |-> None, usage |-> None, choices |-> "absent"]}

\* A well-formed answer, an answer without "choices", one whose first choice
\* has no "message", and a body that is not JSON.
FlowBodies == {[json |-> TRUE, citations |-> <<"a", "b">>, usage |-> <<"total: 5">>,
                choices |-> "content"],
               [json |-> TRUE, citations |-> None, usage |-> None, choices |-> "absent"],
               [json |-> TRUE, citations |-> None, usage |-> None, choices |-> "no_message"],
               [json |-> FALSE, citations |-> None, usage |-> None, choices |-> "absent"]}

\* Command lines of a query with a valid model.
RenderArgs == [query : {<<"q">>}, model : {"sonar-pro"}, usage : BOOLEAN, citations : BOOLEAN,
               glow : BOOLEAN, api_key : {None, X}, clear_config : {FALSE}]

\* Outcomes of requests.post: an HTTP status, or 0 for a RequestException.
TransportError == 0
Statuses == {TransportError, HTTP_OK, HTTP_UNAUTHORIZED, HTTP_SERVER_ERROR}

\* ------------------------------------------------------------ str methods
IsSpace(c) == c = " "

RECURSIVE LStrip(_)
LStrip(s) == IF s # <<>> /\ IsSpace(Head(s)) THEN LStrip(Tail(s)) ELSE s

RECURSIVE RStrip(_)
RStrip(s) == IF s # <<>> /\ IsSpace(s[Len(s)]) THEN RStrip(SubSeq(s, 1, Len(s) - 1)) ELSE s

\* str.strip()
Strip(s) == RStrip(LStrip(s))

LowerChar(c) == CASE c = "Y" -> "y"
                  [] c = "N" -> "n"
                  [] c = "E" -> "e"
                  [] c = "S" -> "s"
                  [] OTHER -> c

\* str.lower()
Lower(s) == [i \in 1..Len(s) |-> LowerChar(s[i])]

\* input(...).strip().lower() of the two (y/n) prompts
ReadChoice(line) == Lower(Strip(line))

\* Mutant of Accepts: any answer that starts with y is taken as a yes.
Accepts_startswith(choice) == choice # <<>> /\ choice[1] = "y"

\* The test == 'y' of an answer to a (y/n) prompt
Accepts(choice) == choice = <<"y">>

\* input("API Key: ").strip()
ReadKey(line) == Strip(line)

\* ------------------------------------------------------------ settings file
\* The file CONFIG_FILE: exists, parses as a JSON object (valid), its "api_key"
\* entry (None when the entry is missing).
NoFile == [exists |-> FALSE, valid |-> FALSE, api_key |-> None]

Files == {NoFile, [exists |-> TRUE, valid |-> FALSE, api_key |-> None]}
         \cup [exists : {TRUE}, valid : {TRUE}, api_key : {None, <<>>, S}]

\* ConfigManager.load_config: the mapping read, by its "api_key" entry; {} when
\* the file is absent or cannot be read or parsed (logged).
load_config(f) == IF f.exists /\ f.valid THEN [api_key |-> f.api_key] ELSE [api_key |-> None]

\* ConfigManager.save_config: mkdir is outside the try block and raises (it can
\* fail only while the directory does not exist: exist_ok=True); a failure of
\* open, json.dump or chmod is logged. open(.., 'w') leaves the file as it was
\* when it fails and truncates it otherwise, so a failing json.dump leaves a
\* file that does not parse; chmod acts on the file already written.
save_config(config, f, d, fault) ==
  IF ~d /\ fault = "mkdir"
  THEN [file |-> f, dir |-> d, raised |-> TRUE]
  ELSE [dir |-> TRUE, raised |-> FALSE,
        file |-> CASE fault = "open" -> f
                   [] fault = "write" -> [exists |-> TRUE, valid |-> FALSE, api_key |-> None]
                   [] OTHER -> [exists |-> TRUE, valid |-> TRUE, api_key |-> config.api_key]]

\* ConfigManager.save_api_key
save_api_key(key, f, d, fault) ==
  save_config([load_config(f) EXCEPT !.api_key = key], f, d, fault)

\* Mutant of clear_config: the message is printed but the file is not removed.
clear_config_keeps(f) ==
  IF f.exists
  THEN [file |-> f, out |-> "cleared"]
  ELSE [file |-> f, out |-> "nothing_to_clear"]

\* The --clear-config branch of main: the file afterwards and the message
\* (unlink of an existing file is taken to succeed).
clear_config(f) ==
  IF f.exists
  THEN [file |-> NoFile, out |-> "cleared"]
  ELSE [file |-> f, out |-> "nothing_to_clear"]

\* Mutant of get_api_key: the settings file is consulted before the environment.
get_api_key_file_first(e, f) ==
  IF f.exists /\ f.valid /\ f.api_key # None
  THEN [key |-> f.api_key, reads |-> {"settings"}]
  ELSE [key |-> IF Truthy(e) THEN e ELSE None, reads |-> {"env", "settings"}]

\* ConfigManager.get_api_key: the key found, and the sources consulted.
get_api_key(e, f) ==
  IF Truthy(e)
  THEN [key |-> e, reads |-> {"env"}]
  ELSE [key |-> load_config(f).api_key, reads |-> {"env", "settings"}]

\* Mutant of validate: every model is accepted.
validate_any(model) == model = model

\* ModelValidator.validate
validate(model) == \E i \in 1..Len(AVAILABLE_MODELS) : AVAILABLE_MODELS[i] = model

\* The key handling of Perplexity.__init__: the key taken without a prompt
\* (None when the prompt is needed) and the sources consulted.
init_api_key(a, e, f) ==
  IF Truthy(a.api_key)
  THEN [key |-> a.api_key, reads |-> {"explicit"}]
  ELSE LET r == get_api_key(e, f)
       IN  [key |-> r.key, reads |-> {"explicit"} \cup r.reads]

\* ------------------------------------------------------------ terminal output
Line(kind) == [kind |-> kind, header |-> <<>>, data |-> <<>>]

\* The header of a section: "# Title" with glow, the colour banner otherwise.
Header(title, glow) == IF glow THEN <<"#", title>> ELSE <<"banner", title>>

_show_citations(result, glow) ==
  [kind |-> "citations", header |-> Header("Citations", glow), data |-> result]

_show_usage(result, glow) ==
  [kind |-> "usage", header |-> Header("Tokens", glow), data |-> result]

_show_content(result, glow) ==
  [kind |-> "content", header |-> Header("Content", glow), data |-> result]

\* Mutant of render_ok: with glow the usage section comes first and the
\* citations are cut to their first entry.
render_ok_glow(body, cit, usg, glow) ==
  IF ~body.json
  THEN [out |-> <<>>, raised |-> TRUE]
  ELSE LET c == IF cit /\ body.citations # None
                THEN <<_show_citations(IF glow THEN SubSeq(body.citations, 1, 1)
                                       ELSE body.citations, glow)>>
                ELSE <<>>
           u == IF usg /\ body.usage # None
                THEN <<_show_usage(body.usage, glow)>> ELSE <<>>
           s == IF glow THEN u \o c ELSE c \o u
       IN  IF body.choices \in {"absent", "empty"}
           THEN [out |-> s \o <<Line("no_content")>>, raised |-> FALSE]
           ELSE IF body.choices = "content"
           THEN [out |-> s \o <<_show_content(<<"hi">>, glow)>>, raised |-> FALSE]
           ELSE [out |-> s, raised |-> TRUE]

\* The 200 branch of get_response: what is printed, and whether an exception
\* left the branch (response.json() failing, or a subscript of the first
\* choice failing).
render_ok(body, cit, usg, glow) ==
  IF ~body.json
  THEN [out |-> <<>>, raised |-> TRUE]
  ELSE LET c == IF cit /\ body.citations # None
                THEN <<_show_citations(body.citations, glow)>> ELSE <<>>
           u == IF usg /\ body.usage # None
                THEN <<_show_usage(body.usage, glow)>> ELSE <<>>
       IN  IF body.choices \in {"absent", "empty"}
           THEN [out |-> c \o u \o <<Line("no_content")>>, raised |-> FALSE]
           ELSE IF body.choices = "content"
           THEN [out |-> c \o u \o <<_show_content(<<"hi">>, glow)>>, raised |-> FALSE]
           ELSE [out |-> c \o u, raised |-> TRUE]

\* ------------------------------------------------------------ state
VARIABLES
  cfgFile,     \* the settings file (shared by successive runs)
  dirExists,   \* whether CONFIG_DIR exists
  prevCleared, \* whether the previous run was a --clear-config run
  pc,          \* where the current run is: idle, key_input, save_input,
               \* request, retry_input, done
  args,        \* the parsed command line of the current run
  env,         \* PERPLEXITY_API_KEY of the current run
  api_key,     \* self.config.api_key
  typed,       \* the last key read at "API Key: " (None before the first)
  sentKeys,    \* the key of the Authorization header of each request issued
  reads,       \* the credential sources consulted by this run
  keyPrompts,  \* how often the key prompt was shown in this run
  lastChoice,  \* the answer read at the retry question of the last 401
               \* (after strip and lower; None while it is not answered)
  lastBody,    \* the body of the last 200 response handled
  output,      \* what this run printed
  exitCode,    \* the exit status; NoExit while the process runs
  outcome      \* the way the run ended

vars == <<cfgFile, dirExists, prevCleared, pc, args, env, api_key, typed, sentKeys,
          reads, keyPrompts, lastChoice, lastBody, output, exitCode, outcome>>

NoExit == 99
NoArgs == [query |-> None, model |-> "sonar-pro", usage |-> FALSE, citations |-> FALSE,
           glow |-> FALSE, api_key |-> None, clear_config |-> FALSE]
NoBody == [json |-> FALSE, citations |-> None, usage |-> None, choices |-> "none"]

\* No process is running.
NoProcess ==
  /\ pc = "idle"
  /\ args = NoArgs
  /\ env = None
  /\ api_key = None
  /\ typed = None
  /\ sentKeys = <<>>
  /\ reads = {}
  /\ keyPrompts = 0
  /\ lastChoice = None
  /\ lastBody = NoBody
  /\ output = <<>>
  /\ exitCode = NoExit
  /\ outcome = "running"

Init ==
  /\ cfgFile \in Files
  /\ dirExists \in BOOLEAN
  /\ cfgFile.exists => dirExists
  /\ prevCleared = FALSE
  /\ NoProcess

\* sys.exit(code) after printing out
Exit(code, why, out) ==
  /\ pc' = "done"
  /\ exitCode' = code
  /\ outcome' = why
  /\ output' = out

\* Mutant of Send: a retry goes out with the key of the rejected request.
Send_stale(key, out) ==
  /\ pc' = "request"
  /\ api_key' = IF sentKeys = <<>> THEN key ELSE api_key
  /\ sentKeys' = Append(sentKeys, api_key')
  /\ output' = out
  /\ UNCHANGED <<exitCode, outcome>>

\* self.config.api_key = key, then get_response up to requests.post: the
\* request leaves with "Bearer <self.config.api_key>".
Send(key, out) ==
  /\ pc' = "request"
  /\ api_key' = key
  /\ sentKeys' = Append(sentKeys, api_key')
  /\ output' = out
  /\ UNCHANGED <<exitCode, outcome>>

\* prompt_for_api_key up to input("API Key: ")
AskKey(out) ==
  /\ pc' = "key_input"
  /\ keyPrompts' = keyPrompts + 1
  /\ output' = out \o <<Line("ask_key")>>
  /\ UNCHANGED <<exitCode, outcome>>

\* main(), from the start of the process to its first blocking call or exit.
Main(a, e) ==
  /\ pc = "idle"
  /\ args' = a
  /\ env' = e
  /\ UNCHANGED <<dirExists, prevCleared, typed, lastChoice, lastBody>>
  /\ IF a.clear_config
     THEN /\ cfgFile' = clear_config(cfgFile).file
          /\ Exit(0, "clear_config", <<Line(clear_config(cfgFile).out)>>)
          /\ UNCHANGED <<api_key, sentKeys, reads, keyPrompts>>
     ELSE IF ~Truthy(a.query)
     THEN /\ Exit(2, "usage_error", <<Line("usage")>>)
          /\ UNCHANGED <<cfgFile, api_key, sentKeys, reads, keyPrompts>>
     ELSE IF ~validate(a.model)
     THEN /\ Exit(1, "invalid_model", <<Line("error")>>)
          /\ UNCHANGED <<cfgFile, api_key, sentKeys, reads, keyPrompts>>
     ELSE LET r == init_api_key(a, e, cfgFile)
          IN  /\ reads' = r.reads
              /\ UNCHANGED cfgFile
              /\ IF r.key = None
                 THEN AskKey(<<>>) /\ UNCHANGED <<api_key, sentKeys>>
                 ELSE Send(r.key, <<>>) /\ UNCHANGED keyPrompts

\* prompt_for_api_key, from the line read at "API Key: " to the save question.
KeyInput(line) ==
  /\ pc = "key_input"
  /\ UNCHANGED <<cfgFile, dirExists, prevCleared, args, env, api_key, sentKeys, reads,
                 keyPrompts, lastChoice, lastBody>>
  /\ LET k == ReadKey(line)
     IN  IF k = <<>>
         THEN Exit(1, "empty_key", output \o <<Line("key_empty")>>) /\ UNCHANGED typed
         ELSE /\ typed' = k
              /\ pc' = "save_input"
              /\ UNCHANGED <<output, exitCode, outcome>>

\* prompt_for_api_key, from the answer to the save question to its return,
\* and on into the request of the caller (__init__ then get_response, or the
\* retry of get_response).
SaveInput(line, fault) ==
  /\ pc = "save_input"
  /\ UNCHANGED <<prevCleared, args, env, typed, reads, keyPrompts, lastChoice, lastBody>>
  /\ IF Accepts(ReadChoice(line))
     THEN LET r == save_api_key(typed, cfgFile, dirExists, fault)
          IN  /\ cfgFile' = r.file
              /\ dirExists' = r.dir
              /\ IF r.raised
                 THEN Exit(1, "save_error", output \o <<Line("error")>>)
                      /\ UNCHANGED <<api_key, sentKeys>>
                 ELSE Send(typed, output \o <<Line("saved")>>)
     ELSE /\ UNCHANGED <<cfgFile, dirExists>>
          /\ Send(typed, output)

\* get_response, from the return of requests.post to the next blocking call
\* or the end of the process.
Respond(status, body) ==
  /\ pc = "request"
  /\ UNCHANGED <<cfgFile, dirExists, prevCleared, args, env, api_key, typed, sentKeys,
                 reads, keyPrompts>>
  /\ lastChoice' = None
  /\ IF status = TransportError
     THEN Exit(1, "transport", output \o <<Line("network_error")>>) /\ UNCHANGED lastBody
     ELSE IF status = HTTP_OK
     THEN LET r == render_ok(body, args.citations, args.usage, args.glow)
          IN  /\ lastBody' = body
              /\ IF r.raised
                 THEN Exit(1, "render_error", output \o r.out \o <<Line("error")>>)
                 ELSE Exit(0, "success", output \o r.out)
     ELSE IF status = HTTP_UNAUTHORIZED
     THEN /\ pc' = "retry_input"
          /\ output' = output \o <<Line("invalid_key")>>
          /\ UNCHANGED <<lastBody, exitCode, outcome>>
     ELSE Exit(1, "http_error", output \o <<Line("http_error")>>) /\ UNCHANGED lastBody

\* get_response, from the answer to the retry question on.
RetryInput(line) ==
  /\ pc = "retry_input"
  /\ UNCHANGED <<cfgFile, dirExists, prevCleared, args, env, api_key, typed, sentKeys,
                 reads, lastBody>>
  /\ lastChoice' = ReadChoice(line)
  /\ IF Accepts(ReadChoice(line))
     THEN Len(sentKeys) < MaxCalls /\ AskKey(output)
     ELSE Exit(1, "declined", output) /\ UNCHANGED keyPrompts

Blocked == pc \in {"key_input", "save_input", "request", "retry_input"}

\* Mutant of Interrupt: the interrupt is reported as a failure.
Interrupt_fails ==
  /\ Blocked
  /\ Exit(1, "interrupt", output \o <<Line("cancelled")>>)
  /\ UNCHANGED <<cfgFile, dirExists, prevCleared, args, env, api_key, typed, sentKeys,
                 reads, keyPrompts, lastChoice, lastBody>>

\* KeyboardInterrupt raised in a blocking call of the try block of main.
Interrupt ==
  /\ Blocked
  /\ Exit(0, "interrupt", output \o <<Line("cancelled")>>)
  /\ UNCHANGED <<cfgFile, dirExists, prevCleared, args, env, api_key, typed, sentKeys,
                 reads, keyPrompts, lastChoice, lastBody>>

\* EOFError raised by input(): caught by "except Exception" of main.
InputEOF ==
  /\ pc \in {"key_input", "save_input", "retry_input"}
  /\ Exit(1, "eof", output \o <<Line("error")>>)
  /\ UNCHANGED <<cfgFile, dirExists, prevCleared, args, env, api_key, typed, sentKeys,
                 reads, keyPrompts, lastChoice, lastBody>>

\* The process has exited: its memory is gone, the settings file stays.
Reap ==
  /\ pc = "done"
  /\ prevCleared' = (outcome = "clear_config")
  /\ pc' = "idle"
  /\ args' = NoArgs
  /\ env' = None
  /\ api_key' = None
  /\ typed' = None
  /\ sentKeys' = <<>>
  /\ reads' = {}
  /\ keyPrompts' = 0
  /\ lastChoice' = None
  /\ lastBody' = NoBody
  /\ output' = <<>>
  /\ exitCode' = NoExit
  /\ outcome' = "running"
  /\ UNCHANGED <<cfgFile, dirExists>>

\* The steps of the program, its command lines drawn from A, its environment
\* from E and the bodies of its 200 responses from B.
Step(A, E, B) ==
  \/ \E a \in A, e \in E : Main(a, e)
  \/ \E line \in KeyLines : KeyInput(line)
  \/ \E line \in ChoiceLines, fault \in SaveFaults : SaveInput(line, fault)
  \/ \E status \in Statuses, body \in B : Respond(status, body)
  \/ \E line \in ChoiceLines : RetryInput(line)
  \/ Interrupt
  \/ InputEOF
  \/ Reap

\* The command lines of Args under every environment; the 200 responses are
\* the four of FlowBodies.
Next == Step(Args, EnvKeys, FlowBodies)

Spec == Init /\ [][Next]_vars

\* Query runs under every combination of the rendering flags, with every
\* body of Bodies.
RenderNext == Step(RenderArgs, {None}, Bodies)

RenderSpec == Init /\ [][RenderNext]_vars
\* ------------------------------------------------------------ properties
\* The "api_key" entry the settings file supplies (None when it supplies none).
SettingsKey == IF cfgFile.exists /\ cfgFile.valid THEN cfgFile.api_key ELSE None

\* Some of the three sources supplies a non-empty key.
HasNonEmpty == Truthy(args.api_key) \/ Truthy(env) \/ Truthy(SettingsKey)

\* The non-empty source of highest priority: explicit, environment, settings.
HighestNonEmpty ==
  IF Truthy(args.api_key) THEN args.api_key ELSE IF Truthy(env) THEN env ELSE SettingsKey

C2_AtMostOneRetry == Len(sentKeys) <= 2

\* C3 as stated: whenever the model is not an allowed identifier, the run ends
\* with the invalid-model error and exit code 1, with no network call, no
\* credential source read and no prompt shown.
C3_Original ==
  (pc # "idle" /\ ~(\E i \in 1..Len(AVAILABLE_MODELS) : AVAILABLE_MODELS[i] = args.model)) =>
    /\ pc = "done" /\ exitCode = 1 /\ outcome = "invalid_model"
    /\ sentKeys = <<>> /\ reads = {} /\ keyPrompts = 0

\* C3: whenever the model is not an allowed identifier, the run ends with no
\* network call, no credential source read and no prompt shown; it ends with
\* the invalid-model error and exit code 1 when it is a query run (no
\* --clear-config, a non-empty query), with exit code 0 under --clear-config
\* and with the usage error 2 when the query is missing.
C3_InvalidModel ==
  (pc # "idle" /\ ~(\E i \in 1..Len(AVAILABLE_MODELS) : AVAILABLE_MODELS[i] = args.model)) =>
    /\ pc = "done"
    /\ sentKeys = <<>> /\ reads = {} /\ keyPrompts = 0 /\ typed = None
    /\ IF args.clear_config THEN exitCode = 0 /\ outcome = "clear_config"
       ELSE IF ~Truthy(args.query) THEN exitCode = 2 /\ outcome = "usage_error"
       ELSE exitCode = 1 /\ outcome = "invalid_model"

\* A query run with an invalid model ends in the invalid-model error although
\* every credential source supplies a key.
C3_Witness ==
  /\ args.model = "not-a-real-model" /\ args.query = <<"q">> /\ ~args.clear_config
  /\ args.api_key = X /\ env = Y /\ SettingsKey = S
  /\ pc = "done" /\ exitCode = 1 /\ outcome = "invalid_model" /\ reads = {}

\* The number of 401 responses of the run (one notice is printed for each).
Rejections == Len(SelectSeq(output, LAMBDA l : l.kind = "invalid_key"))

\* C4: once a retry was accepted and a non-empty key typed, the request that
\* follows carries the typed key; and a run that was rejected once and then
\* answered 200 has made exactly two network calls and, the body having
\* content, has rendered the content last.
C4_RetryUsesNewKey ==
  /\ (Len(sentKeys) >= 2 /\ (pc \in {"request", "retry_input"} \/ outcome = "success")) =>
        (typed # None /\ typed # <<>> /\ sentKeys[Len(sentKeys)] = typed)
  /\ (outcome = "success" /\ Rejections = 1) =>
        /\ Len(sentKeys) = 2
        /\ lastBody.choices = "content" =>
              (output[Len(output)].kind = "content" /\ output[Len(output)].data = <<"hi">>)

\* Key X is rejected, the retry accepted, Z typed, and the second call, with
\* Z, is answered 200 and rendered.
C4_Witness ==
  /\ sentKeys = <<X, Z>> /\ typed = Z /\ Rejections = 1
  /\ outcome = "success" /\ exitCode = 0
  /\ output[Len(output)].kind = "content"

\* C5: a retry question answered with anything other than y (after strip and
\* lower) ends the run with exit code 1, with no further network call, no key
\* prompt, and the settings file unchanged.
C5_DeclinedRetry ==
  [][(pc = "retry_input" /\ lastChoice' # None /\ lastChoice' # <<"y">>) =>
        /\ pc' = "done" /\ exitCode' = 1
        /\ sentKeys' = sentKeys /\ keyPrompts' = keyPrompts
        /\ cfgFile' = cfgFile /\ dirExists' = dirExists]_vars

\* The first call is rejected, the answer is "yes" (which is not y): exit 1
\* after one call and no key prompt.
C5_Witness ==
  /\ lastChoice = <<"y", "e", "s">> /\ pc = "done" /\ exitCode = 1
  /\ Len(sentKeys) = 1 /\ keyPrompts = 0

\* C6 as stated: every run ends with 0 (success, --clear-config, interrupt)
\* or 1 (empty key, transport error, declined retry, other HTTP status,
\* invalid model, any other uncaught error), and with no other code.
C6_Original ==
  pc = "done" =>
    \/ exitCode = 0 /\ outcome \in {"success", "clear_config", "interrupt"}
    \/ exitCode = 1 /\ outcome \in {"empty_key", "transport", "declined", "http_error",
                                    "invalid_model", "eof", "save_error", "render_error"}

\* C6: as C6_Original, and a run with neither --clear-config nor a query ends
\* with the usage error, exit code 2.
C6_ExitCodes ==
  /\ pc = "done" =>
       \/ exitCode = 0 /\ outcome \in {"success", "clear_config", "interrupt"}
       \/ exitCode = 1 /\ outcome \in {"empty_key", "transport", "declined", "http_error",
                                       "invalid_model", "eof", "save_error", "render_error"}
       \/ exitCode = 2 /\ outcome = "usage_error" /\ ~args.clear_config /\ ~Truthy(args.query)
  /\ pc # "done" => exitCode = NoExit

\* An interrupt while the save question of a retry is open ends the run
\* with exit code 0.
C6_Witness ==
  /\ outcome = "interrupt" /\ exitCode = 0 /\ pc = "done"
  /\ typed = Z /\ Len(sentKeys) = 1 /\ keyPrompts = 1 /\ Rejections = 1

\* The sections printed by the 200 branch.
Sections == SelectSeq(output, LAMBDA l : l.kind \in {"citations", "usage", "content"})

Rank(kind) == CASE kind = "citations" -> 1 [] kind = "usage" -> 2 [] kind = "content" -> 3

HasSection(kind) == \E i \in 1..Len(Sections) : Sections[i].kind = kind

\* C7: after a 200 response the sections are in the order citations, usage,
\* content, each at most once; citations are printed iff the flag is set and
\* the body has the field, and so is usage; the data of each section is the
\* body's and its title is fixed, whatever the header style, which shows only
\* in the first part of the header.
C7_RenderOrder ==
  lastBody # NoBody =>
    /\ \A i, j \in 1..Len(Sections) : i < j => Rank(Sections[i].kind) < Rank(Sections[j].kind)
    /\ HasSection("citations") <=> (args.citations /\ lastBody.citations # None)
    /\ HasSection("usage") <=> (args.usage /\ lastBody.usage # None)
    /\ \A i \in 1..Len(Sections) :
         /\ Sections[i].header[1] = (IF args.glow THEN "#" ELSE "banner")
         /\ Sections[i].kind = "citations" =>
              (Sections[i].data = lastBody.citations /\ Sections[i].header[2] = "Citations")
         /\ Sections[i].kind = "usage" =>
              (Sections[i].data = lastBody.usage /\ Sections[i].header[2] = "Tokens")
         /\ Sections[i].kind = "content" =>
              (Sections[i].data = <<"hi">> /\ Sections[i].header[2] = "Content")

\* With glow and both flags, the three sections of a full body, in order.
C7_Witness ==
  /\ args.glow /\ args.citations /\ args.usage
  /\ lastBody.citations = <<"a", "b">> /\ lastBody.usage = <<"total: 5">>
  /\ Len(Sections) = 3
  /\ Sections[1].kind = "citations" /\ Sections[2].kind = "usage"
  /\ Sections[3].kind = "content"
  /\ outcome = "success"

\* C8: a 200 response with a JSON body always ends the run as a success; the
\* content is rendered when the first choice has message.content, and the "no
\* content" notice in every other case.
C8_ContentOrNotice ==
  (pc = "done" /\ lastBody # NoBody /\ lastBody.json) =>
    /\ outcome = "success" /\ exitCode = 0
    /\ output[Len(output)].kind =
         (IF lastBody.choices = "content" THEN "content" ELSE "no_content")

\* C9: a --clear-config run ends at once with exit code 0, whatever the other
\* arguments, with no credential read, prompt or network call; it removes the
\* settings file and reports "cleared" if the file exists, and changes nothing
\* and reports "nothing to clear" otherwise, as it always does right after
\* another --clear-config run.
C9_ClearConfig ==
  [][(pc = "idle" /\ args'.clear_config) =>
        /\ pc' = "done" /\ exitCode' = 0
        /\ sentKeys' = <<>> /\ reads' = {} /\ keyPrompts' = 0
        /\ ~cfgFile'.exists
        /\ IF cfgFile.exists
           THEN output' = <<Line("cleared")>>
           ELSE output' = <<Line("nothing_to_clear")>> /\ cfgFile' = cfgFile
        /\ dirExists' = dirExists
        /\ prevCleared => output' = <<Line("nothing_to_clear")>>]_vars

\* A second clear right after a first, without a query and with an invalid
\* model: nothing to clear, exit code 0.
C9_Witness ==
  /\ prevCleared /\ args.clear_config /\ args.query = None
  /\ args.model = "not-a-real-model"
  /\ pc = "done" /\ exitCode = 0 /\ output = <<Line("nothing_to_clear")>>

\* C10: whatever the save of the settings runs into, a run that has read the
\* answer to the save question (it was not interrupted and its input did not
\* end) goes on: the typed key becomes the key in use and the request is
\* issued with it.
C10_SaveNeverRaises ==
  [][(pc = "save_input" /\ pc' # "save_input" /\ outcome' \notin {"interrupt", "eof"}) =>
        /\ pc' = "request"
        /\ api_key' = typed
        /\ sentKeys' = Append(sentKeys, typed)]_vars
====
